---- MODULE Spec2Model ----
(***************************************************************************)
(* A model of src/apple_tts.py: the AppleTTS corpus (self.samples), its    *)
(* query methods and the interactive command loop of main().               *)
(*                                                                         *)
(* Strings are sequences of one-character strings.  Scores are exact       *)
(* rationals <<numerator, denominator>>; durations are integers counted in *)
(* 1/(100*DurRes) seconds.                                                 *)
(***************************************************************************)
EXTENDS Integers, Sequences, FiniteSets, TLC

VARIABLES samples, ret, pc, pending

vars == <<samples, ret, pc, pending>>

----------------------------------------------------------------------------
(* Bounds of the model *)

\* longest enumerated text / query
MaxLen == 3
\* most records in an enumerated corpus
MaxSamples == 2
\* largest duration of a record, in duration units
MaxDur == 3
\* duration units per hundredth of a second
DurRes == 3

----------------------------------------------------------------------------
(* Python str operations *)

Min(x, y) == IF x < y THEN x ELSE y

Abs(x) == IF x < 0 THEN 0 - x ELSE x

\* the characters texts and queries are made of
Chars == {"a", "B", " "}

\* str.lower(), one character
LowerChar(c) ==
    CASE c = "A" -> "a"
      [] c = "B" -> "b"
      [] c = "C" -> "c"
      [] c = "D" -> "d"
      [] c = "E" -> "e"
      [] c = "F" -> "f"
      [] c = "G" -> "g"
      [] c = "H" -> "h"
      [] c = "I" -> "i"
      [] c = "J" -> "j"
      [] c = "K" -> "k"
      [] c = "L" -> "l"
      [] c = "M" -> "m"
      [] c = "N" -> "n"
      [] c = "O" -> "o"
      [] c = "P" -> "p"
      [] c = "Q" -> "q"
      [] c = "R" -> "r"
      [] c = "S" -> "s"
      [] c = "T" -> "t"
      [] c = "U" -> "u"
      [] c = "V" -> "v"
      [] c = "W" -> "w"
      [] c = "X" -> "x"
      [] c = "Y" -> "y"
      [] c = "Z" -> "z"
      [] OTHER -> c

\* str.lower()
Lower(s) == [i \in 1..Len(s) |-> LowerChar(s[i])]

IsSpace(c) == c = " "

\* str.strip(): leading and trailing whitespace removed
Strip(s) ==
    LET keep == {i \in 1..Len(s) : ~IsSpace(s[i])}
    IN  IF keep = {} THEN <<>>
        ELSE LET lo == CHOOSE i \in keep : \A j \in keep : i <= j
                 hi == CHOOSE i \in keep : \A j \in keep : j <= i
             IN  SubSeq(s, lo, hi)

\* set(str.split()): the maximal runs of non-whitespace characters
SplitWords(s) ==
    {SubSeq(s, i, j) : <<i, j>> \in
        {p \in (1..Len(s)) \X (1..Len(s)) :
            /\ p[1] <= p[2]
            /\ \A k \in p[1]..p[2] : ~IsSpace(s[k])
            /\ (p[1] = 1 \/ IsSpace(s[p[1] - 1]))
            /\ (p[2] = Len(s) \/ IsSpace(s[p[2] + 1]))}}

\* str.startswith(prefix)
StartsWith(s, prefix) ==
    /\ Len(prefix) <= Len(s)
    /\ SubSeq(s, 1, Len(prefix)) = prefix

\* `sub in s` for strings
Contains(sub, s) ==
    \E i \in 0..(Len(s) - Len(sub)) : SubSeq(s, i + 1, i + Len(sub)) = sub

----------------------------------------------------------------------------
(* difflib.SequenceMatcher(None, a, b).ratio(), for len(b) < 200 (no       *)
(* autojunk).  Indices are Python's: 0-based, half-open ranges.            *)

\* a[i:i+k] == b[j:j+k]
BlockAt(a, b, i, j, k) == \A d \in 0..(k - 1) : a[i + d + 1] = b[j + d + 1]

\* the matching blocks inside a[alo:ahi], b[blo:bhi]
Blocks(a, b, alo, ahi, blo, bhi) ==
    {t \in (alo..(ahi - 1)) \X (blo..(bhi - 1)) \X (1..Min(ahi - alo, bhi - blo)) :
        /\ t[1] + t[3] <= ahi
        /\ t[2] + t[3] <= bhi
        /\ BlockAt(a, b, t[1], t[2], t[3])}

\* longest first, then earliest in a, then earliest in b
BlockBefore(t, u) ==
    \/ t[3] > u[3]
    \/ t[3] = u[3] /\ t[1] < u[1]
    \/ t[3] = u[3] /\ t[1] = u[1] /\ t[2] <= u[2]

\* SequenceMatcher.find_longest_match
find_longest_match(a, b, alo, ahi, blo, bhi) ==
    LET bs == Blocks(a, b, alo, ahi, blo, bhi)
    IN  IF bs = {} THEN <<alo, blo, 0>>
        ELSE CHOOSE t \in bs : \A u \in bs : BlockBefore(t, u)

RECURSIVE MatchCount(_, _, _, _, _, _)
\* sum of the sizes of SequenceMatcher.get_matching_blocks()
MatchCount(a, b, alo, ahi, blo, bhi) ==
    LET m == find_longest_match(a, b, alo, ahi, blo, bhi)
        i == m[1]
        j == m[2]
        k == m[3]
    IN  IF k = 0 THEN 0
        ELSE k
             + (IF alo < i /\ blo < j THEN MatchCount(a, b, alo, i, blo, j) ELSE 0)
             + (IF i + k < ahi /\ j + k < bhi
                   THEN MatchCount(a, b, i + k, ahi, j + k, bhi) ELSE 0)

\* SequenceMatcher.ratio(): 2.0 * matches / (len(a) + len(b)), 1.0 if both empty
Ratio(a, b) ==
    IF Len(a) + Len(b) = 0 THEN <<1, 1>>
    ELSE <<2 * MatchCount(a, b, 0, Len(a), 0, Len(b)), Len(a) + Len(b)>>

----------------------------------------------------------------------------
(* Rationals <<n, d>> with d > 0 *)

RatAdd(x, y) == <<x[1] * y[2] + y[1] * x[2], x[2] * y[2]>>

RatGt(x, y) == x[1] * y[2] > y[1] * x[2]

RatEq(x, y) == x[1] * y[2] = y[1] * x[2]

----------------------------------------------------------------------------
(* Records.  A sample is the dict json.loads returns for one line: `keys'  *)
(* is the set of keys the dict has, the other fields hold the values of    *)
(* the keys it has (and a filler for a key it lacks, never read).          *)

RequiredKeys ==
    {"utterance_name", "words", "script_title", "sentence_estimated_duration",
     "phone_sequence", "transcription"}

Rec(id, words, cat, dur, phones) ==
    [keys |-> RequiredKeys, utterance_name |-> id, words |-> words,
     script_title |-> cat, sentence_estimated_duration |-> dur,
     phone_sequence |-> phones, transcription |-> words]

\* the dict without key k
Without(r, k) == [r EXCEPT !.keys = @ \ {k}]

HasKey(r, k) == k \in r.keys

\* results of a call: what it returned, or the exception it raised
Returned(kind, val) == [kind |-> kind, val |-> val]

Raised(exc) == [kind |-> "raise", val |-> exc]

None == Returned("None", 0)

IsRaise(r) == r.kind = "raise"

----------------------------------------------------------------------------
(* AppleTTS.load_metadata: the lines of the metadata file, in file order.  *)
(* A line is blank, a JSON object, or text json.loads rejects.             *)

BlankLine == [kind |-> "blank", obj |-> 0]

GarbageLine == [kind |-> "garbage", obj |-> 0]

JsonLine(r) == [kind |-> "json", obj |-> r]

RECURSIVE LoadLines(_, _)
LoadLines(lines, acc) ==
    IF lines = <<>> THEN Returned("samples", acc)
    ELSE LET line == Head(lines)
         IN  IF line.kind = "blank" THEN LoadLines(Tail(lines), acc)
             ELSE IF line.kind = "garbage" THEN Raised("JSONDecodeError")
             ELSE LoadLines(Tail(lines), Append(acc, line.obj))

\* file: [exists, lines]; self.samples starts as []
load_metadata(file) ==
    IF ~file.exists THEN Raised("FileNotFoundError")
    ELSE LoadLines(file.lines, <<>>)

----------------------------------------------------------------------------
(* AppleTTS.find_sample_by_id: a returned sample is its position in        *)
(* self.samples (the method returns the list's own dict object).           *)

\* a comparison that ignores letter case
IdEqualsIgnoringCase(name, utterance_name) == Lower(name) = Lower(utterance_name)

\* sample['utterance_name'] == utterance_name
IdEquals(name, utterance_name) == name = utterance_name

RECURSIVE FindFrom(_, _, _)
FindFrom(ss, utterance_name, i) ==
    IF i > Len(ss) THEN None
    ELSE IF ~HasKey(ss[i], "utterance_name") THEN Raised("KeyError")
    ELSE IF IdEquals(ss[i].utterance_name, utterance_name) THEN Returned("sample", i)
    ELSE FindFrom(ss, utterance_name, i + 1)

find_sample_by_id(ss, utterance_name) == FindFrom(ss, utterance_name, 1)

----------------------------------------------------------------------------
(* AppleTTS.find_closest_match *)

\* the acceptance threshold 0.3 and the word bonus weight 0.3, as 3/10
Threshold == <<3, 10>>

BonusWeight == <<3, 10>>

\* best_score = 0
InitialBestScore == <<0, 1>>

\* ratio + word_overlap * 0.3, text being the normalised query
Score(text, sample_text) ==
    LET text_words == SplitWords(text)
        sample_words == SplitWords(sample_text)
        word_overlap ==
            IF text_words # {}
               THEN <<Cardinality(text_words \cap sample_words), Cardinality(text_words)>>
               ELSE <<0, 1>>
    IN  RatAdd(Ratio(text, sample_text),
               <<word_overlap[1] * BonusWeight[1], word_overlap[2] * BonusWeight[2]>>)

\* an update that also replaces the best-so-far on an equal score
ImprovesOrTies(score, best_score) == ~RatGt(best_score, score)

\* if score > best_score
Improves(score, best_score) == RatGt(score, best_score)

\* an acceptance that also admits a score equal to the threshold
AcceptAtThreshold(best_match, best_score) ==
    IF RatGt(Threshold, best_score) THEN None ELSE best_match

\* best_match if best_score > 0.3 else None
Accept(best_match, best_score) ==
    IF RatGt(best_score, Threshold) THEN best_match ELSE None

\* sample_text = sample['words'].lower()
SampleText(sample) == Lower(sample.words)

\* sample_text == text
ExactMatch(sample_text, text) == sample_text = text

RECURSIVE ClosestFrom(_, _, _, _, _)
ClosestFrom(ss, text, i, best_match, best_score) ==
    IF i > Len(ss) THEN Accept(best_match, best_score)
    ELSE IF ~HasKey(ss[i], "words") THEN Raised("KeyError")
    ELSE LET sample_text == SampleText(ss[i])
             score == Score(text, sample_text)
         IN  IF ExactMatch(sample_text, text) THEN Returned("sample", i)
             ELSE IF Improves(score, best_score)
                     THEN ClosestFrom(ss, text, i + 1, Returned("sample", i), score)
                     ELSE ClosestFrom(ss, text, i + 1, best_match, best_score)

find_closest_match(ss, text) ==
    ClosestFrom(ss, Strip(Lower(text)), 1, None, InitialBestScore)

----------------------------------------------------------------------------
(* AppleTTS.search_samples and AppleTTS.filter_by_category: the returned   *)
(* list, as the positions of its samples.                                  *)

\* a test that forgets to lower-case the sample's text
MatchesCaseSensitive(query, sample) == Contains(query, sample.words)

\* query in sample['words'].lower()
Matches(query, sample) == Contains(query, Lower(sample.words))

RECURSIVE SearchFrom(_, _, _, _)
SearchFrom(ss, query, i, results) ==
    IF i > Len(ss) THEN Returned("list", results)
    ELSE IF ~HasKey(ss[i], "words") THEN Raised("KeyError")
    ELSE IF Matches(query, ss[i])
            THEN SearchFrom(ss, query, i + 1, Append(results, i))
            ELSE SearchFrom(ss, query, i + 1, results)

search_samples(ss, query) == SearchFrom(ss, Lower(query), 1, <<>>)

RECURSIVE FilterFrom(_, _, _, _)
FilterFrom(ss, category, i, results) ==
    IF i > Len(ss) THEN Returned("list", results)
    ELSE IF ~HasKey(ss[i], "script_title") THEN Raised("KeyError")
    ELSE IF ss[i].script_title = category
            THEN FilterFrom(ss, category, i + 1, Append(results, i))
            ELSE FilterFrom(ss, category, i + 1, results)

filter_by_category(ss, category) == FilterFrom(ss, category, 1, <<>>)

----------------------------------------------------------------------------
(* AppleTTS.get_stats *)

RECURSIVE SumDurations(_, _)
\* sum(s['sentence_estimated_duration'] for s in ss[i:])
SumDurations(ss, i) ==
    IF i > Len(ss) THEN 0
    ELSE ss[i].sentence_estimated_duration + SumDurations(ss, i + 1)

\* round(x, 2) of x = num/den hundredths: the nearest number of hundredths.
\* Exactly halfway, the binary value of the float decides; both neighbours
\* are possible results.
Round2(num, den) ==
    {q \in (num \div den)..((num \div den) + 1) : 2 * Abs(q * den - num) <= den}

\* code points of the characters category names are made of
CharCode(c) ==
    CASE c = " " -> 32
      [] c = "G" -> 71
      [] c = "g" -> 103
      [] OTHER -> 120

RECURSIVE StrLess(_, _)
\* s < t for Python strings
StrLess(s, t) ==
    IF t = <<>> THEN FALSE
    ELSE IF s = <<>> THEN TRUE
    ELSE IF CharCode(Head(s)) # CharCode(Head(t)) THEN CharCode(Head(s)) < CharCode(Head(t))
    ELSE StrLess(Tail(s), Tail(t))

RECURSIVE Sorted(_)
\* sorted(set of strings)
Sorted(S) ==
    IF S = {} THEN <<>>
    ELSE LET m == CHOOSE x \in S : \A y \in S \ {x} : StrLess(x, y)
         IN  <<m>> \o Sorted(S \ {m})

\* get_stats() averaging over the categories instead of the samples
get_stats_per_category(ss) ==
    IF \E i \in 1..Len(ss) : ~HasKey(ss[i], "script_title") THEN {Raised("KeyError")}
    ELSE IF \E i \in 1..Len(ss) : ~HasKey(ss[i], "sentence_estimated_duration")
            THEN {Raised("KeyError")}
    ELSE IF Len(ss) = 0 THEN {Raised("ZeroDivisionError")}
    ELSE LET categories == {ss[i].script_title : i \in 1..Len(ss)}
             total == SumDurations(ss, 1)
         IN  {Returned("stats",
                       [total_samples |-> Len(ss),
                        categories |-> Cardinality(categories),
                        category_names |-> Sorted(categories),
                        avg_duration |-> avg,
                        total_duration |-> tot]) :
                  <<avg, tot>> \in Round2(total, DurRes * Cardinality(categories))
                                      \X Round2(total, DurRes)}

\* the possible results of get_stats(); with one sample the average is the
\* total itself (x / 1), so both round alike
get_stats(ss) ==
    IF \E i \in 1..Len(ss) : ~HasKey(ss[i], "script_title") THEN {Raised("KeyError")}
    ELSE IF \E i \in 1..Len(ss) : ~HasKey(ss[i], "sentence_estimated_duration")
            THEN {Raised("KeyError")}
    ELSE IF Len(ss) = 0 THEN {Raised("ZeroDivisionError")}
    ELSE LET categories == {ss[i].script_title : i \in 1..Len(ss)}
             total == SumDurations(ss, 1)
         IN  {Returned("stats",
                       [total_samples |-> Len(ss),
                        categories |-> Cardinality(categories),
                        category_names |-> Sorted(categories),
                        avg_duration |-> avg,
                        total_duration |-> tot]) :
                  <<avg, tot>> \in
                      {p \in Round2(total, DurRes * Len(ss)) \X Round2(total, DurRes) :
                          Len(ss) = 1 => p[1] = p[2]}}

----------------------------------------------------------------------------
(* AppleTTS.analyze_phonemes *)

\* `not sample`: None, or a dict without keys
Falsy(ss, r) == r.kind = "None" \/ (r.kind = "sample" /\ ss[r.val].keys = {})

\* the separator ' # '
PhoneSep == <<" ", "#", " ">>

RECURSIVE SplitOn(_, _)
\* str.split(sep)
SplitOn(s, sep) ==
    LET at == {i \in 0..(Len(s) - Len(sep)) : SubSeq(s, i + 1, i + Len(sep)) = sep}
    IN  IF at = {} THEN <<s>>
        ELSE LET i == CHOOSE x \in at : \A y \in at : x <= y
             IN  <<SubSeq(s, 1, i)>> \o SplitOn(SubSeq(s, i + Len(sep) + 1, Len(s)), sep)

analyze_phonemes(ss, utterance_name) ==
    LET found == find_sample_by_id(ss, utterance_name)
    IN  IF IsRaise(found) THEN found
        ELSE IF Falsy(ss, found) THEN None
        ELSE LET sample == ss[found.val]
             IN  IF {"phone_sequence", "words", "transcription"} \subseteq sample.keys
                    THEN LET phonemes == SplitOn(sample.phone_sequence, PhoneSep)
                         IN  Returned("analysis",
                                      [text |-> sample.words,
                                       phoneme_count |-> Len(phonemes),
                                       phonemes |-> phonemes,
                                       full_sequence |-> sample.phone_sequence,
                                       transcription |-> sample.transcription])
                    ELSE Raised("KeyError")

----------------------------------------------------------------------------
(* AppleTTS.play_audio and AppleTTS.synthesize_text.  The environment of a *)
(* call: whether <id>.caf exists, and for each external program whether it *)
(* runs ("ok"), exits non-zero ("fail") or is not installed ("missing").   *)

ToolStates == {"ok", "fail", "missing"}

\* the programs a call does not reach are left "ok"
Envs ==
    {e \in [audio : BOOLEAN, ffmpeg : ToolStates, ffplay : ToolStates,
            espeak : ToolStates, say : ToolStates] :
        /\ e.audio => e.espeak = "ok" /\ e.say = "ok"
        /\ ~e.audio => e.ffmpeg = "ok" /\ e.ffplay = "ok"
        /\ e.ffmpeg # "ok" => e.ffplay = "ok"
        /\ e.espeak # "missing" => e.say = "ok"}

\* what synthesize_text does: returns, or lets an exception through
synthesize_text(env) ==
    IF env.espeak = "ok" THEN None
    ELSE IF env.espeak = "fail" THEN Raised("CalledProcessError")
    ELSE IF env.say = "ok" THEN None
    ELSE IF env.say = "fail" THEN Raised("CalledProcessError")
    ELSE None

play_audio(ss, env, utterance_name) ==
    LET found == find_sample_by_id(ss, utterance_name)
    IN  IF IsRaise(found) THEN found
        ELSE IF Falsy(ss, found) THEN Returned("bool", FALSE)
        ELSE LET sample == ss[found.val]
             IN  IF ~env.audio
                    THEN IF ~HasKey(sample, "words") THEN Raised("KeyError")
                         ELSE IF IsRaise(synthesize_text(env)) THEN synthesize_text(env)
                         ELSE Returned("bool", TRUE)
                 ELSE IF ~({"words", "phone_sequence", "sentence_estimated_duration"}
                              \subseteq sample.keys)
                    THEN Raised("KeyError")
                 ELSE IF env.ffmpeg = "missing" THEN Raised("FileNotFoundError")
                 ELSE IF env.ffmpeg = "fail" THEN Returned("bool", FALSE)
                 ELSE IF env.ffplay = "missing" THEN Raised("FileNotFoundError")
                 ELSE Returned("bool", TRUE)

----------------------------------------------------------------------------
(* AppleTTS.generate_report *)

\* self.samples[:5]
ReportExamples == 5

generate_report(ss) ==
    LET stats == CHOOSE r \in get_stats(ss) : TRUE
        shown == 1..Min(ReportExamples, Len(ss))
    IN  IF IsRaise(stats) THEN stats
        ELSE IF \E i \in shown :
                   ~({"utterance_name", "words", "phone_sequence"} \subseteq ss[i].keys)
                THEN Raised("KeyError")
        ELSE Returned("report", Len(stats.val.category_names))

----------------------------------------------------------------------------
(* Inputs *)

\* all strings of at most n characters
StrsUpTo(n) == UNION {[1..k -> Chars] : k \in 0..n}

\* m times "a", then n times "B"
Pad(m, n) == [i \in 1..(m + n) |-> IF i <= m THEN "a" ELSE "B"]

\* texts long enough for scores at and just above the acceptance threshold
\* (6/20 and 6/19 against the query "aaa")
LongTexts == {Pad(3, 14), Pad(3, 13)}

Texts == StrsUpTo(MaxLen) \cup LongTexts

Queries == StrsUpTo(MaxLen)

Ids == {<<"u", "1">>, <<"U", "1">>}

QueryIds == Ids \cup {<<"u", "2">>, <<>>}

Cats == {<<"g">>, <<"G">>}

QueryCats == Cats \cup {<<"x">>}

Durs == 0..MaxDur

SomePhones == <<"a", " ", "#", " ", "b">>

\* the id of the i-th line of a generated file
IdOf(i) == IF i = 1 THEN <<"u", "1">> ELSE IF i = 2 THEN <<"u", "2">> ELSE <<"u", "3">>

\* all sequences of at most n elements of S
SeqsUpTo(S, n) == UNION {[1..k -> S] : k \in 0..n}

\* queries of the library specification
ApiQueries == {<<>>, <<"a">>, <<"A", " ", "b">>, <<"q", "q">>}

GoodRecords ==
    {Rec(<<"u", "1">>, <<"a", " ", "B">>, <<"g">>, 1, SomePhones),
     Rec(<<"U", "1">>, <<"a">>, <<"G">>, 2, <<"a">>),
     Rec(<<"u", "1">>, <<"B">>, <<"g">>, 3, SomePhones)}

\* JSON objects that lack a key, or every key
BadRecords ==
    {Without(Rec(<<"u", "1">>, <<"a", " ", "B">>, <<"g">>, 1, SomePhones), k) :
        k \in {"utterance_name", "words", "sentence_estimated_duration"}}
    \cup {[Rec(<<"u", "1">>, <<"a", " ", "B">>, <<"g">>, 1, SomePhones) EXCEPT !.keys = {}]}

\* metadata files of good and bad records, blank lines and lines that are
\* not JSON
ApiFiles ==
    {[exists |-> TRUE, lines |-> ls] :
        ls \in SeqsUpTo({JsonLine(r) : r \in GoodRecords \cup BadRecords}
                            \cup {BlankLine, GarbageLine},
                        MaxSamples)}

\* metadata files whose records differ in category and duration
StatsFiles ==
    {[exists |-> TRUE, lines |-> ls] :
        ls \in SeqsUpTo({JsonLine(Rec(<<"u", "1">>, <<"a">>, c, d, SomePhones)) :
                            <<c, d>> \in Cats \X Durs},
                        MaxSamples)}

\* metadata files whose records differ in their text
MatchFiles ==
    {[exists |-> TRUE,
      lines |-> [i \in 1..Len(ws) |-> JsonLine(Rec(IdOf(i), ws[i], <<"g">>, 1, SomePhones))]] :
        ws \in SeqsUpTo(Texts, MaxSamples)}

\* the metadata files main() is run on
MainFiles ==
    {[exists |-> FALSE, lines |-> <<>>],
     [exists |-> TRUE, lines |-> <<>>],
     [exists |-> TRUE, lines |-> <<GarbageLine>>],
     [exists |-> TRUE,
      lines |-> <<JsonLine(Rec(<<"u", "1">>, <<"a", " ", "B">>, <<"g">>, 1, SomePhones))>>],
     [exists |-> TRUE,
      lines |-> <<JsonLine(Rec(<<"u", "1">>, <<"a", " ", "B">>, <<"g">>, 1, SomePhones)), BlankLine,
                  JsonLine(Rec(<<"U", "1">>, <<"a">>, <<"G">>, 2, <<"a">>))>>]}

\* the lines typed at the prompt
InputLines ==
    {<<>>,
     <<" ">>,
     <<"q", "u", "i", "t">>,
     <<" ", "Q", "U", "I", "T", " ">>,
     <<"Q", "u", "i", "t">>,
     <<"q", "u", "i", "t", "s">>,
     <<"s", "t", "a", "t", "s">>,
     <<"S", "T", "A", "T", "S">>,
     <<"s", "e", "a", "r", "c", "h", " ", "a">>,
     <<"S", "e", "a", "r", "c", "h", " ", " ", "B">>,
     <<"s", "e", "a", "r", "c", "h">>,
     <<"p", "l", "a", "y", " ", "u", "1">>,
     <<"P", "L", "A", "Y", " ", " ", "U", "1", " ">>,
     <<"p", "l", "a", "y", " ", "u", "2">>,
     <<"a", "n", "a", "l", "y", "z", "e", " ", "u", "1">>,
     <<"a", "n", "a", "l", "y", "z", "e", " ", "u", "2">>,
     <<"l", "i", "s", "t", " ", "g">>,
     <<"l", "i", "s", "t", " ", "x">>,
     <<"a", " ", "B">>,
     <<"a">>,
     <<"q", "q">>}

\* the answers typed at "Play this sample? (y/n)"
Answers == {<<"y">>, <<" ", "Y", " ">>, <<"n">>, <<>>}

----------------------------------------------------------------------------
(* The AppleTTS object used as a library: after construction, any query    *)
(* method may be called, with any argument, in any order.                  *)

Call(op, arg, r) == [op |-> op, arg |-> arg, kind |-> r.kind, val |-> r.val]

NoCall == Call("none", <<>>, None)

\* AppleTTS.__init__ on a file load_metadata accepts
Constructed(files) ==
    /\ \E file \in files :
          /\ load_metadata(file).kind = "samples"
          /\ samples = load_metadata(file).val
    /\ ret = NoCall
    /\ pc = "api"
    /\ pending = 0

Init == Constructed(ApiFiles)

InitMatch == Constructed(MatchFiles)

InitStats == Constructed(StatsFiles)


GetStatsCall ==
    /\ pc = "api"
    /\ \E r \in get_stats(samples) : ret' = Call("get_stats", <<>>, r)
    /\ UNCHANGED <<samples, pc, pending>>

FindSampleByIdCall ==
    /\ pc = "api"
    /\ \E id \in QueryIds :
          ret' = Call("find_sample_by_id", id, find_sample_by_id(samples, id))
    /\ UNCHANGED <<samples, pc, pending>>

\* tts.find_closest_match(text) for a text of Q
FindClosestMatchOf(Q) ==
    /\ pc = "api"
    /\ \E text \in Q :
          ret' = Call("find_closest_match", text, find_closest_match(samples, text))
    /\ UNCHANGED <<samples, pc, pending>>

FindClosestMatchCall == FindClosestMatchOf(ApiQueries)

\* tts.search_samples(query) for a query of Q
SearchSamplesOf(Q) ==
    /\ pc = "api"
    /\ \E query \in Q :
          ret' = Call("search_samples", query, search_samples(samples, query))
    /\ UNCHANGED <<samples, pc, pending>>

SearchSamplesCall == SearchSamplesOf(ApiQueries)

\* a filter that keeps its result in self.samples
FilterByCategoryInPlace ==
    /\ pc = "api"
    /\ \E category \in QueryCats :
          LET r == filter_by_category(samples, category)
          IN  /\ ret' = Call("filter_by_category", category, r)
              /\ samples' = IF IsRaise(r) THEN samples
                            ELSE [n \in 1..Len(r.val) |-> samples[r.val[n]]]
    /\ UNCHANGED <<pc, pending>>

FilterByCategoryCall ==
    /\ pc = "api"
    /\ \E category \in QueryCats :
          ret' = Call("filter_by_category", category, filter_by_category(samples, category))
    /\ UNCHANGED <<samples, pc, pending>>

AnalyzePhonemesCall ==
    /\ pc = "api"
    /\ \E id \in QueryIds :
          ret' = Call("analyze_phonemes", id, analyze_phonemes(samples, id))
    /\ UNCHANGED <<samples, pc, pending>>

PlayAudioCall ==
    /\ pc = "api"
    /\ \E id \in QueryIds, env \in Envs :
          ret' = Call("play_audio", <<id, env>>, play_audio(samples, env, id))
    /\ UNCHANGED <<samples, pc, pending>>

GenerateReportCall ==
    /\ pc = "api"
    /\ ret' = Call("generate_report", <<>>, generate_report(samples))
    /\ UNCHANGED <<samples, pc, pending>>

Next ==
    \/ GetStatsCall
    \/ FindSampleByIdCall
    \/ FindClosestMatchCall
    \/ SearchSamplesCall
    \/ FilterByCategoryCall
    \/ AnalyzePhonemesCall
    \/ PlayAudioCall
    \/ GenerateReportCall

Spec == Init /\ [][Next]_vars

\* find_closest_match and search_samples as functions of corpus and query:
\* one application to each corpus and query
FindClosestMatchOnce == ret = NoCall /\ FindClosestMatchOf(Queries)

SearchSamplesOnce == ret = NoCall /\ SearchSamplesOf(Queries)

NextMatch ==
    \/ FindClosestMatchOnce
    \/ SearchSamplesOnce

MatchSpec == InitMatch /\ [][NextMatch]_vars

\* the methods that read categories and durations
NextStats ==
    \/ GetStatsCall
    \/ FilterByCategoryCall
    \/ GenerateReportCall

StatsSpec == InitStats /\ [][NextStats]_vars

----------------------------------------------------------------------------
(* main(): construction, the report, then the command loop.                *)

QUIT == <<"q", "u", "i", "t">>
STATS == <<"s", "t", "a", "t", "s">>
SEARCH == <<"s", "e", "a", "r", "c", "h", " ">>
PLAY == <<"p", "l", "a", "y", " ">>
ANALYZE == <<"a", "n", "a", "l", "y", "z", "e", " ">>
LIST == <<"l", "i", "s", "t", " ">>
YES == <<"y">>

\* s[n:]
Drop(s, n) == SubSeq(s, n + 1, Len(s))

\* results[:10] and samples[:15]
SearchShown == 10

ListShown == 15

\* the branch of the loop body that handles user_input (already stripped)
Handler(user_input) ==
    IF user_input = <<>> THEN "empty"
    ELSE IF Lower(user_input) = QUIT THEN "quit"
    ELSE IF Lower(user_input) = STATS THEN "get_stats"
    ELSE IF StartsWith(Lower(user_input), SEARCH) THEN "search_samples"
    ELSE IF StartsWith(Lower(user_input), PLAY) THEN "play_audio"
    ELSE IF StartsWith(Lower(user_input), ANALYZE) THEN "analyze_phonemes"
    ELSE IF StartsWith(Lower(user_input), LIST) THEN "filter_by_category"
    ELSE "find_closest_match"

\* printing utterance_name and words of the first `shown' samples of a list
PrintList(ss, r, shown) ==
    IF IsRaise(r) THEN r
    ELSE IF \E n \in 1..Min(shown, Len(r.val)) :
               ~({"utterance_name", "words"} \subseteq ss[r.val[n]].keys)
            THEN Raised("KeyError")
    ELSE r

\* printing the closest match before asking whether to play it
PrintMatch(ss, r) ==
    IF IsRaise(r) \/ Falsy(ss, r) THEN r
    ELSE IF {"utterance_name", "words", "script_title", "sentence_estimated_duration"}
               \subseteq ss[r.val].keys
            THEN r
    ELSE Raised("KeyError")

\* an uncaught exception ends main(); otherwise the loop goes on
After(r) == IF IsRaise(r) THEN "crashed" ELSE "prompt"

InitMain ==
    /\ samples = <<>>
    /\ ret = NoCall
    /\ pc = "start"
    /\ pending = 0

\* tts = AppleTTS(metadata_path, audio_dir)
Construct ==
    /\ pc = "start"
    /\ \E file \in MainFiles :
          LET r == load_metadata(file)
          IN  /\ ret' = Call("__init__", <<>>, r)
              /\ samples' = IF IsRaise(r) THEN samples ELSE r.val
              /\ pc' = IF IsRaise(r) THEN "crashed" ELSE "report"
    /\ UNCHANGED pending

\* print(tts.generate_report())
Report ==
    /\ pc = "report"
    /\ ret' = Call("generate_report", <<>>, generate_report(samples))
    /\ pc' = After(generate_report(samples))
    /\ UNCHANGED <<samples, pending>>

\* user_input = input("\n> ").strip(), dispatched to handler h
Reads(h, line) ==
    /\ pc = "prompt"
    /\ line \in InputLines
    /\ Handler(Strip(line)) = h

CmdEmpty ==
    \E line \in InputLines :
        /\ Reads("empty", line)
        /\ ret' = Call("empty", line, None)
        /\ UNCHANGED <<samples, pc, pending>>

CmdQuit ==
    \E line \in InputLines :
        /\ Reads("quit", line)
        /\ ret' = Call("quit", line, None)
        /\ pc' = "exited"
        /\ UNCHANGED <<samples, pending>>

CmdStats ==
    \E line \in InputLines :
        /\ Reads("get_stats", line)
        /\ \E r \in get_stats(samples) :
              /\ ret' = Call("get_stats", line, r)
              /\ pc' = After(r)
        /\ UNCHANGED <<samples, pending>>

CmdSearch ==
    \E line \in InputLines :
        /\ Reads("search_samples", line)
        /\ LET query == Drop(Strip(line), Len(SEARCH))
               r == PrintList(samples, search_samples(samples, query), SearchShown)
           IN  /\ ret' = Call("search_samples", line, r)
               /\ pc' = After(r)
        /\ UNCHANGED <<samples, pending>>

CmdPlay ==
    \E line \in InputLines, env \in Envs :
        /\ Reads("play_audio", line)
        /\ LET utterance_id == Strip(Drop(Strip(line), Len(PLAY)))
               r == play_audio(samples, env, utterance_id)
           IN  /\ ret' = Call("play_audio", <<line, env>>, r)
               /\ pc' = After(r)
        /\ UNCHANGED <<samples, pending>>

CmdAnalyze ==
    \E line \in InputLines :
        /\ Reads("analyze_phonemes", line)
        /\ LET utterance_id == Strip(Drop(Strip(line), Len(ANALYZE)))
               r == analyze_phonemes(samples, utterance_id)
           IN  /\ ret' = Call("analyze_phonemes", line, r)
               /\ pc' = After(r)
        /\ UNCHANGED <<samples, pending>>

CmdList ==
    \E line \in InputLines :
        /\ Reads("filter_by_category", line)
        /\ LET category == Strip(Drop(Strip(line), Len(LIST)))
               r == PrintList(samples, filter_by_category(samples, category), ListShown)
           IN  /\ ret' = Call("filter_by_category", line, r)
               /\ pc' = After(r)
        /\ UNCHANGED <<samples, pending>>

\* free text: the closest match, then the question whether to play it
CmdMatch ==
    \E line \in InputLines :
        /\ Reads("find_closest_match", line)
        /\ LET r == PrintMatch(samples, find_closest_match(samples, Strip(line)))
           IN  /\ ret' = Call("find_closest_match", line, r)
               /\ pc' = IF IsRaise(r) THEN "crashed"
                        ELSE IF Falsy(samples, r) THEN "prompt"
                        ELSE "confirm"
               /\ pending' = IF IsRaise(r) \/ Falsy(samples, r) THEN pending ELSE r.val
        /\ UNCHANGED samples

\* play = input("\nPlay this sample? (y/n): ").strip().lower()
Confirm ==
    /\ pc = "confirm"
    /\ \E answer \in Answers, env \in Envs :
          IF Lower(Strip(answer)) = YES
             THEN LET r == play_audio(samples, env, samples[pending].utterance_name)
                  IN  /\ ret' = Call("confirm", <<answer, env>>, r)
                      /\ pc' = After(r)
             ELSE /\ ret' = Call("confirm", <<answer, env>>, None)
                  /\ pc' = "prompt"
    /\ UNCHANGED <<samples, pending>>

NextMain ==
    \/ Construct
    \/ Report
    \/ CmdEmpty
    \/ CmdQuit
    \/ CmdStats
    \/ CmdSearch
    \/ CmdPlay
    \/ CmdAnalyze
    \/ CmdList
    \/ CmdMatch
    \/ Confirm

MainSpec == InitMain /\ [][NextMain]_vars

----------------------------------------------------------------------------
(* Properties *)

\* the query as find_closest_match normalises it
Normalized(s) == Strip(Lower(s))

\* the score find_closest_match gives the i-th sample for the last query
ScoreOf(i) == Score(Normalized(ret.arg), Lower(samples[i].words))

\* no sample's lower-cased text is the normalised query: the scored pass
\* runs over the whole corpus
ScoredPass ==
    /\ ret.op = "find_closest_match"
    /\ \A i \in 1..Len(samples) : Lower(samples[i].words) # Normalized(ret.arg)

\* C1: if some record's normalised text (lower-cased, stripped) equals the
\* normalised query, find_closest_match returns the first such record
\* (stated for queries that are not blank; the data model has no record with
\* an empty text).
C1_ExactMatchPriority ==
    ret.op = "find_closest_match" =>
        LET hits == {i \in 1..Len(samples) :
                        Normalized(samples[i].words) = Normalized(ret.arg)}
        IN  (hits # {} /\ Normalized(ret.arg) # <<>>) =>
                /\ ret.kind = "sample"
                /\ \A i \in hits : ret.val <= i
                /\ ret.val \in hits

\* C2: without an exact match, a record is returned exactly when the largest
\* score of the corpus is strictly greater than 0.3, the returned record has
\* that largest score, and otherwise the result is None.
C2_AcceptanceThreshold ==
    ScoredPass =>
        LET above == \E i \in 1..Len(samples) : RatGt(ScoreOf(i), Threshold)
        IN  /\ ret.kind = "sample" <=> above
            /\ ret.kind = "sample" =>
                   \A j \in 1..Len(samples) : ~RatGt(ScoreOf(j), ScoreOf(ret.val))
            /\ ~above => ret.kind = "None"

\* the largest score is exactly 0.3 and the result is None
C2_Witness ==
    /\ ScoredPass
    /\ ret.kind = "None"
    /\ \E i \in 1..Len(samples) : RatEq(ScoreOf(i), Threshold)
    /\ \A i \in 1..Len(samples) : ~RatGt(ScoreOf(i), Threshold)

\* C3: in the scored pass every record before the returned one has a
\* strictly smaller score: of equal best scores the first wins.
C3_FirstOfEqualScoresWins ==
    (ScoredPass /\ ret.kind = "sample") =>
        \A j \in 1..(ret.val - 1) : RatGt(ScoreOf(ret.val), ScoreOf(j))

\* a later record ties with the returned one
C3_Witness ==
    /\ ScoredPass
    /\ ret.kind = "sample"
    /\ \E j \in (ret.val + 1)..Len(samples) : RatEq(ScoreOf(j), ScoreOf(ret.val))

\* C4: no query method changes self.samples.
C4_CorpusReadOnly == [][samples' = samples]_vars

\* a query has run on a corpus of two records or more
C4_Witness == ret.op = "filter_by_category" /\ ret.kind = "list" /\ Len(samples) >= 2

\* C5: get_stats on an empty corpus reports an empty-corpus error: it
\* neither raises ZeroDivisionError nor returns statistics.
C5_EmptyCorpusGuarded ==
    (ret.op = "get_stats" /\ samples = <<>>) =>
        /\ ret.kind = "raise"
        /\ ret.val # "ZeroDivisionError"

\* C6: every record of a loaded corpus has all required keys, and no query
\* fails on a missing key.
C6_LoadAdmitsOnlyValidRecords ==
    /\ \A i \in 1..Len(samples) : RequiredKeys \subseteq samples[i].keys
    /\ ~(ret.kind = "raise" /\ ret.val = "KeyError")

\* the i-th sample has the id of the last call
HasId(i) ==
    /\ HasKey(samples[i], "utterance_name")
    /\ samples[i].utterance_name = ret.arg

\* C7: find_sample_by_id returns the first record with exactly the given id;
\* it returns None only if no record has the id and, on records that all have
\* an id, whenever no record has it, without raising; analyze_phonemes
\* returns None in the same cases.
C7_FindById ==
    /\ ret.op = "find_sample_by_id" =>
          /\ ret.kind = "sample" =>
                 /\ HasId(ret.val)
                 /\ \A j \in 1..(ret.val - 1) : ~HasId(j)
          /\ ret.kind = "None" => \A i \in 1..Len(samples) : ~HasId(i)
          /\ (\A i \in 1..Len(samples) : HasKey(samples[i], "utterance_name")) =>
                 /\ ret.kind # "raise"
                 /\ (\A i \in 1..Len(samples) : ~HasId(i)) => ret.kind = "None"
    /\ ret.op = "analyze_phonemes" =>
          /\ ret.kind = "None" <=> \A i \in 1..Len(samples) :
                                       /\ HasKey(samples[i], "utterance_name")
                                       /\ ~HasId(i)
          /\ (\A i \in 1..Len(samples) : RequiredKeys \subseteq samples[i].keys) =>
                 ret.kind # "raise"

\* the second record was returned, and the first, whose id differs from the
\* given one in letter case only, was passed over
C7_Witness ==
    /\ ret.op = "find_sample_by_id"
    /\ ret.kind = "sample"
    /\ ret.val = 2
    /\ HasKey(samples[1], "utterance_name")
    /\ Lower(samples[1].utterance_name) = Lower(ret.arg)

\* q occurs in t at offset k
OccursAt(q, t, k) ==
    /\ k + Len(q) <= Len(t)
    /\ \A d \in 1..Len(q) : t[k + d] = q[d]

\* C8: search_samples returns, once each and in corpus order, exactly the
\* records whose lower-cased text contains the lower-cased query; the empty
\* query returns the whole corpus.
C8_SearchIsSubstringFilter ==
    ret.op = "search_samples" =>
        /\ ret.kind = "list"
        /\ \A m, n \in 1..Len(ret.val) : m < n => ret.val[m] < ret.val[n]
        /\ {ret.val[n] : n \in 1..Len(ret.val)} =
               {i \in 1..Len(samples) :
                   \E k \in 0..Len(samples[i].words) :
                       OccursAt(Lower(ret.arg), Lower(samples[i].words), k)}
        /\ ret.arg = <<>> => ret.val = [i \in 1..Len(samples) |-> i]

\* a query with an upper-case letter found the second record only
C8_Witness ==
    /\ ret.op = "search_samples"
    /\ ret.kind = "list"
    /\ ret.val = <<2>>
    /\ ret.arg # Lower(ret.arg)
    /\ samples[2].words # Lower(samples[2].words)

\* C9 as stated: the reported average is the reported total divided by the
\* reported number of samples (all in hundredths of a second, which a
\* floating tolerance cannot bridge).
C9_AverageEqualsTotalOverCount ==
    (ret.op = "get_stats" /\ ret.kind = "stats") =>
        /\ ret.val.total_samples = Len(samples)
        /\ ret.val.avg_duration * ret.val.total_samples = ret.val.total_duration

\* C9 amended: the reported average differs from the reported total divided
\* by the number of samples by at most the two roundings,
\* |avg - total/n| <= 0.005 * (1 + 1/n).
C9_AverageWithinRounding ==
    (ret.op = "get_stats" /\ ret.kind = "stats") =>
        /\ ret.val.total_samples = Len(samples)
        /\ 2 * Abs(ret.val.avg_duration * ret.val.total_samples - ret.val.total_duration)
               <= ret.val.total_samples + 1

\* statistics of two samples whose rounded average is not half the total
C9_Witness ==
    /\ ret.op = "get_stats"
    /\ ret.kind = "stats"
    /\ ret.val.total_samples = 2
    /\ ret.val.avg_duration * 2 # ret.val.total_duration

\* C10: the command loop ends only on `quit'.
C10_LoopEndsOnlyOnQuit ==
    (pc \in {"exited", "crashed"} /\ ret.op \notin {"__init__", "generate_report"}) =>
        ret.op = "quit"

====
